---- MODULE Spec2Model ----
(***************************************************************************)
(* Model of the AI code-review assistant:                                  *)
(*   - create_pr_with_fix (apply_fix_to_github.py): the remote publishing  *)
(*     choreography, one action per remote call or check;                  *)
(*   - the response extractors of app.py (clean display text,              *)
(*     extract_fixes, extract_doc_suggestions), as operators computed the  *)
(*     way Python's str.replace and the re module compute them;            *)
(*   - the guideline handling of main() across Streamlit reruns.           *)
(* Text is a sequence of one-character strings.                            *)
(***************************************************************************)
EXTENDS Integers, Sequences, FiniteSets, TLC

VARIABLES
    \* ---- create_pr_with_fix ----
    pc,          \* position in create_pr_with_fix
    token,       \* os.getenv("GITHUB_TOKEN"): "absent" (None), "empty" ("") or "set"
    append,      \* TRUE iff the caller passes the keyword append=True
    old_code,    \* argument old_code
    new_code,    \* argument new_code
    fileContent, \* content of file_path on main, held by the remote
    old_content, \* local old_content (line 50)
    calls,       \* remote HTTP calls issued so far, in order: [kind, result]
    branchCreated, \* remote: refs/heads/<branch> exists
    committed,   \* remote: content committed on the new branch, or NoCommit
    prCreated,   \* remote: a pull request from the branch exists
    error,       \* "none" while running, "returned" on return, else the exception
    \* ---- main(): one review and its extraction ----
    appPc,       \* position in the review handler of main()
    review,      \* review_data['review'], the raw review text
    clean_review, \* clean_review (line 245), the text displayed
    fix_code,    \* fix_code (line 249), the result of extract_fixes
    \* ---- extract_doc_suggestions ----
    lines,       \* lines (line 160), the lines of the captured section
    idx,         \* number of lines the for loop has consumed
    current_file,  \* current_file; None is the empty text (only its truth is read)
    current_block, \* current_block
    suggestions, \* suggestions
    \* ---- main(): guidelines across the reruns of one session ----
    uploaded,    \* value of the file_uploader widget: a file or NoFile
    custom_guidelines, \* st.session_state.custom_guidelines, or Unset
    guidelines_block,  \* guidelines_block of the latest review (line 66)
    last_upload, \* the file of the most recent upload (history)
    reviews      \* number of reviews run in the session

pubVars == <<pc, token, append, old_code, new_code, fileContent, old_content,
             calls, branchCreated, committed, prCreated, error>>

docVars == <<lines, idx, current_file, current_block, suggestions>>

appVars == <<appPc, review, clean_review, fix_code, docVars>>

sessVars == <<uploaded, custom_guidelines, guidelines_block, last_upload, reviews>>

vars == <<pubVars, appVars, sessVars>>

-----------------------------------------------------------------------------
(* Bounds *)

\* longest file content drawn for the remote file
MaxContent == 2
\* longest old_code / new_code drawn
MaxSnippet == 1

-----------------------------------------------------------------------------
(* Text helpers *)

Chars == {"a", "b"}

Strs(n) == UNION {[1..k -> Chars] : k \in 0..n}

\* Python: sub in s
Contains(sub, s) ==
    \E i \in 0..(Len(s) - Len(sub)) : SubSeq(s, i + 1, i + Len(sub)) = sub

\* Python: s.find(sub), 0-based, -1 when absent
Find(sub, s) ==
    IF Contains(sub, s)
    THEN CHOOSE i \in 0..(Len(s) - Len(sub)) :
            /\ SubSeq(s, i + 1, i + Len(sub)) = sub
            /\ \A j \in 0..(i - 1) : SubSeq(s, j + 1, j + Len(sub)) # sub
    ELSE -1

\* Python: s.replace(old, new, 1)
ReplaceFirst(s, old, new) ==
    IF Contains(old, s)
    THEN LET i == Find(old, s)
         IN  SubSeq(s, 1, i) \o new \o SubSeq(s, i + Len(old) + 1, Len(s))
    ELSE s

-----------------------------------------------------------------------------
(* create_pr_with_fix *)

NoCommit == <<"no commit">>

\* what a remote call can do: answer 2xx ("ok"), answer with an error
\* status ("http_error"), never reach the remote ("conn_error": requests
\* raises ConnectionError), or be carried out by the remote with the answer
\* lost on the way back ("timeout": requests raises Timeout / ConnectionError)
Responses == {"ok", "http_error", "conn_error", "timeout"}

\* the remote carried the request out
TookEffect(resp) == resp \in {"ok", "timeout"}

\* body of an error answer of the raw download (e.g. "404: Not Found")
ErrorBody == <<"b">>

Issue(kind, resp) == calls' = Append(calls, [kind |-> kind, result |-> resp])

\* requests.get/post/put raising before any response object exists
Raises(resp) == resp \in {"conn_error", "timeout"}

\* r.raise_for_status()
RaiseForStatus(resp) == resp = "http_error"

\* line 43: r.status_code != 201
NotCreated(resp) == resp # "ok"

\* line 52 without the test: the snippet is taken to be there
SnippetCheckSkipped(old, content) == FALSE

\* line 52: old_code not in old_content
SnippetMissing(old, content) == ~Contains(old, content)

\* line 89 left out: an error answer to create-pull-request goes unnoticed
PullsIgnored(resp) == FALSE

\* line 89: r.raise_for_status() on the create-pull-request answer
PullsRaiseForStatus(resp) == RaiseForStatus(resp)

Fail(e) == /\ error' = e
           /\ pc' = "done"

\* Python binds the arguments: the signature (lines 8-17) has no parameter
\* named append, so a call that passes append=True raises TypeError.
Bind ==
    /\ UNCHANGED <<appVars, sessVars>>
    /\ pc = "call"
    /\ IF append THEN Fail("TypeError")
                 ELSE pc' = "getenv" /\ UNCHANGED error
    /\ UNCHANGED <<token, append, old_code, new_code, fileContent, old_content,
                   calls, branchCreated, committed, prCreated>>

\* lines 22-24
CheckToken ==
    /\ UNCHANGED <<appVars, sessVars>>
    /\ pc = "getenv"
    /\ IF token # "set" THEN Fail("MissingCredential")
                        ELSE pc' = "get_ref" /\ UNCHANGED error
    /\ UNCHANGED <<token, append, old_code, new_code, fileContent, old_content,
                   calls, branchCreated, committed, prCreated>>

\* lines 33-35
GetRef(resp) ==
    /\ UNCHANGED <<appVars, sessVars>>
    /\ pc = "get_ref"
    /\ Issue("get_ref", resp)
    /\ IF Raises(resp) THEN Fail("ConnectionError")
       ELSE IF RaiseForStatus(resp) THEN Fail("HTTPError")
       ELSE pc' = "create_ref" /\ UNCHANGED error
    /\ UNCHANGED <<token, append, old_code, new_code, fileContent, old_content,
                   branchCreated, committed, prCreated>>

\* lines 38-44
CreateRef(resp) ==
    /\ UNCHANGED <<appVars, sessVars>>
    /\ pc = "create_ref"
    /\ Issue("create_ref", resp)
    /\ branchCreated' = TookEffect(resp)
    /\ IF Raises(resp) THEN Fail("ConnectionError")
       ELSE IF NotCreated(resp) THEN Fail("BranchCreationError")
       ELSE pc' = "get_contents" /\ UNCHANGED error
    /\ UNCHANGED <<token, append, old_code, new_code, fileContent, old_content,
                   committed, prCreated>>

\* lines 47-49
GetContents(resp) ==
    /\ UNCHANGED <<appVars, sessVars>>
    /\ pc = "get_contents"
    /\ Issue("get_contents", resp)
    /\ IF Raises(resp) THEN Fail("ConnectionError")
       ELSE IF RaiseForStatus(resp) THEN Fail("HTTPError")
       ELSE pc' = "download" /\ UNCHANGED error
    /\ UNCHANGED <<token, append, old_code, new_code, fileContent, old_content,
                   branchCreated, committed, prCreated>>

\* line 50: requests.get(content["download_url"]).text; the status of the
\* answer is not looked at, an error answer's body becomes old_content
Download(resp) ==
    /\ UNCHANGED <<appVars, sessVars>>
    /\ pc = "download"
    /\ Issue("download", resp)
    /\ IF Raises(resp)
       THEN Fail("ConnectionError") /\ UNCHANGED old_content
       ELSE /\ old_content' = IF resp = "ok" THEN fileContent ELSE ErrorBody
            /\ pc' = "check"
            /\ UNCHANGED error
    /\ UNCHANGED <<token, append, old_code, new_code, fileContent,
                   branchCreated, committed, prCreated>>

\* lines 52-53
CheckSnippet ==
    /\ UNCHANGED <<appVars, sessVars>>
    /\ pc = "check"
    /\ IF SnippetMissing(old_code, old_content)
       THEN Fail("SnippetNotFound")
       ELSE pc' = "markdown" /\ UNCHANGED error
    /\ UNCHANGED <<token, append, old_code, new_code, fileContent, old_content,
                   calls, branchCreated, committed, prCreated>>

\* lines 57-61: POST https://api.github.com/markdown; only .text of the
\* answer is taken (and never used), its status is not looked at
Markdown(resp) ==
    /\ UNCHANGED <<appVars, sessVars>>
    /\ pc = "markdown"
    /\ Issue("markdown", resp)
    /\ IF Raises(resp) THEN Fail("ConnectionError")
       ELSE pc' = "put" /\ UNCHANGED error
    /\ UNCHANGED <<token, append, old_code, new_code, fileContent, old_content,
                   branchCreated, committed, prCreated>>

\* lines 56, 64-76: the new content is old_content with the first occurrence
\* of old_code replaced
PutContents(resp) ==
    /\ UNCHANGED <<appVars, sessVars>>
    /\ pc = "put"
    /\ Issue("put", resp)
    /\ committed' = IF TookEffect(resp)
                    THEN ReplaceFirst(old_content, old_code, new_code)
                    ELSE committed
    /\ IF Raises(resp) THEN Fail("ConnectionError")
       ELSE IF RaiseForStatus(resp) THEN Fail("HTTPError")
       ELSE pc' = "pulls" /\ UNCHANGED error
    /\ UNCHANGED <<token, append, old_code, new_code, fileContent, old_content,
                   branchCreated, prCreated>>

\* lines 79-90
CreatePull(resp) ==
    /\ UNCHANGED <<appVars, sessVars>>
    /\ pc = "pulls"
    /\ Issue("pulls", resp)
    /\ prCreated' = TookEffect(resp)
    /\ IF Raises(resp) THEN Fail("ConnectionError")
       ELSE IF PullsRaiseForStatus(resp) THEN Fail("HTTPError")
       ELSE Fail("returned")
    /\ UNCHANGED <<token, append, old_code, new_code, fileContent, old_content,
                   branchCreated, committed>>

\* no file in the uploader widget
NoFile == [ext |-> "none", kind |-> "none", text |-> <<>>, rules |-> <<>>]

\* st.session_state holds no key custom_guidelines
Unset == <<"unset">>

\* a fresh session
SessIdle ==
    /\ uploaded = NoFile
    /\ custom_guidelines = Unset
    /\ guidelines_block = <<>>
    /\ last_upload = NoFile
    /\ reviews = 0

\* extract_doc_suggestions is not running
DocIdle ==
    /\ lines = <<>>
    /\ idx = 0
    /\ current_file = <<>>
    /\ current_block = <<>>
    /\ suggestions = <<>>

\* the review handler is not running
AppIdle ==
    /\ appPc = "idle"
    /\ review = <<>>
    /\ clean_review = <<>>
    /\ fix_code = <<>>
    /\ DocIdle

\* no publish is running
PubIdle ==
    /\ pc = "idle"
    /\ token = "absent"
    /\ append = FALSE
    /\ old_code = <<>>
    /\ new_code = <<>>
    /\ fileContent = <<>>
    /\ old_content = <<>>
    /\ calls = <<>>
    /\ branchCreated = FALSE
    /\ committed = NoCommit
    /\ prCreated = FALSE
    /\ error = "none"

Init ==
    /\ AppIdle
    /\ SessIdle
    /\ pc = "call"
    /\ token \in {"absent", "empty", "set"}
    /\ append \in BOOLEAN
    /\ old_code \in Strs(MaxSnippet)
    /\ new_code \in Strs(MaxSnippet)
    /\ fileContent \in Strs(MaxContent)
    /\ old_content = <<>>
    /\ calls = <<>>
    /\ branchCreated = FALSE
    /\ committed = NoCommit
    /\ prCreated = FALSE
    /\ error = "none"

Next ==
    \/ Bind
    \/ CheckToken
    \/ \E resp \in Responses : GetRef(resp)
    \/ \E resp \in Responses : CreateRef(resp)
    \/ \E resp \in Responses : GetContents(resp)
    \/ \E resp \in Responses : Download(resp)
    \/ CheckSnippet
    \/ \E resp \in Responses : Markdown(resp)
    \/ \E resp \in Responses : PutContents(resp)
    \/ \E resp \in Responses : CreatePull(resp)

Spec == Init /\ [][Next]_vars

-----------------------------------------------------------------------------
(* Properties of create_pr_with_fix *)

Done == pc = "done"

Failed == Done /\ error # "returned"

Kinds(cs) == {cs[i].kind : i \in 1..Len(cs)}

Issued(kind) == kind \in Kinds(calls)

NoCallFailed == \A i \in 1..Len(calls) : calls[i].result = "ok"

\* C1 (as stated): a run that ends in failure never leaves a commit on the
\* new branch without a pull request. Stated for the runs in which every call
\* before the last one succeeded, so that the failure is the last call's.
C1_NoCommitWithoutPR ==
    (Failed /\ \A i \in 1..(Len(calls) - 1) : calls[i].result = "ok")
      => ~(/\ \E i \in 1..Len(calls) :
                  calls[i] = [kind |-> "put", result |-> "ok"]
           /\ committed # NoCommit
           /\ ~prCreated)

\* C1 (amended): a finished run leaves a commit without a pull request only
\* when the branch was created, the remote carried out the update-contents
\* call, and the run then failed: at the create-pull-request call, its last
\* call, or already at update-contents because the answer was lost. A run
\* that fails before update-contents is issued leaves no commit and no pull
\* request, at most the orphan branch.
C1_CommitWithoutPROnlyAfterFailedPull ==
    /\ (Done /\ committed # NoCommit /\ ~prCreated) =>
          /\ branchCreated
          /\ Failed
          /\ error \in {"HTTPError", "ConnectionError"}
          /\ \/ /\ calls[Len(calls)].kind = "pulls"
                /\ ~TookEffect(calls[Len(calls)].result)
                /\ calls[Len(calls) - 1] = [kind |-> "put", result |-> "ok"]
             \/ calls[Len(calls)] = [kind |-> "put", result |-> "timeout"]
    /\ (Failed /\ ~Issued("put")) => (committed = NoCommit /\ ~prCreated)

\* the commit succeeded and create-pull-request answered with an error
C1_Witness ==
    /\ Failed /\ committed # NoCommit /\ ~prCreated /\ branchCreated
    /\ calls[Len(calls)] = [kind |-> "pulls", result |-> "http_error"]

\* C2: once a remote call of the run has failed, no later remote call is
\* issued: every call but the last one of a run succeeded.
C2_FailsClosed ==
    \A i \in 1..Len(calls) : i < Len(calls) => calls[i].result = "ok"

\* the raw download answered, so old_content holds the fetched text
Fetched ==
    \E i \in 1..Len(calls) :
        calls[i].kind = "download" /\ ~Raises(calls[i].result)

\* C3: without append, when old_code does not occur in the fetched content
\* the run fails with the snippet-not-found error and issues neither the
\* update-contents call nor the create-pull-request call.
C3_SnippetNotFound ==
    (Done /\ ~append /\ Fetched /\ ~Contains(old_code, old_content))
      => /\ error = "SnippetNotFound"
         /\ ~Issued("put")
         /\ ~Issued("pulls")
         /\ committed = NoCommit
         /\ ~prCreated

C3_Witness ==
    /\ Done /\ ~append /\ error = "SnippetNotFound"
    /\ old_content = fileContent
    /\ ~Contains(old_code, fileContent)
    /\ calls[Len(calls)] = [kind |-> "download", result |-> "ok"]

\* C4: a finished run with append=true in which the credential is present
\* and no remote call failed has committed the current file content followed
\* by new_code and a newline, whatever old_code is.
C4_AppendConcatenates ==
    (Done /\ append /\ token = "set" /\ NoCallFailed)
      => committed = fileContent \o new_code \o <<"\n">>

\* C5: with the credential absent or empty, the run fails with the
\* missing-credential error and has issued no remote call.
C5_MissingCredential ==
    (Done /\ token # "set") => (error = "MissingCredential" /\ calls = <<>>)

\* C10: a run issues at most six remote calls, each kind at most once.
C10_AtMostSixCalls ==
    /\ Len(calls) <= 6
    /\ \A i, j \in 1..Len(calls) : calls[i].kind = calls[j].kind => i = j

-----------------------------------------------------------------------------
(* main(): the clean display text (line 245) *)

FIX_START == <<"[", "F", "I", "X", "_", "S", "T", "A", "R", "T", "]">>
FIX_END == <<"[", "F", "I", "X", "_", "E", "N", "D", "]">>

\* Python: s.replace(old, new) for a non-empty old: the occurrences are found
\* left to right, each search resuming after the previous occurrence
RECURSIVE ReplaceAll(_, _, _)
ReplaceAll(s, old, new) ==
    IF Contains(old, s)
    THEN LET i == Find(old, s)
         IN  SubSeq(s, 1, i) \o new
               \o ReplaceAll(SubSeq(s, i + Len(old) + 1, Len(s)), old, new)
    ELSE s

\* the concatenation of a sequence of texts
RECURSIVE Concat(_)
Concat(ts) == IF ts = <<>> THEN <<>> ELSE Head(ts) \o Concat(Tail(ts))

\* pieces the drawn review texts are made of: whole markers, marker halves
\* and ordinary text
MaxCleanPieces == 3

CleanPieces ==
    { FIX_START, FIX_END, <<"[", "F", "I", "X", "_">>, <<"S", "T", "A", "R", "T", "]">>, <<"E", "N", "D", "]">>, <<"x">> }

CleanReviews ==
    { Concat(ps) : ps \in UNION {[1..k -> CleanPieces] : k \in 0..MaxCleanPieces} }

\* line 245
CleanReview ==
    /\ appPc = "clean"
    /\ clean_review' =
          ReplaceAll(ReplaceAll(review, FIX_START, <<>>), FIX_END, <<>>)
    /\ appPc' = "shown"
    /\ UNCHANGED <<review, fix_code, docVars, pubVars, sessVars>>

InitClean ==
    /\ PubIdle
    /\ SessIdle
    /\ appPc = "clean"
    /\ review \in CleanReviews
    /\ clean_review = <<>>
    /\ fix_code = <<>>
    /\ DocIdle

NextClean == CleanReview

SpecClean == InitClean /\ [][NextClean]_vars

\* C6: the displayed text contains neither marker, whatever the review text.
C6_CleanHasNoMarkers ==
    appPc = "shown" =>
        /\ ~Contains(FIX_START, clean_review)
        /\ ~Contains(FIX_END, clean_review)

-----------------------------------------------------------------------------
\* extract_fixes (lines 143-146):
\*   re.search(r'\[FIX_START\]\s*```.*?(\w*)\n(.*?)\s*```\s*\[FIX_END\]',
\*             review_text, re.DOTALL)
\* Positions are 0-based offsets: offset p stands before character p + 1.

\* the backtick, which a TLA+ string cannot hold: this character stands for it
\* (like the backtick it is neither a \s nor a \w character)
Backtick == "^"

FENCE == <<Backtick, Backtick, Backtick>>

\* \s
IsSpace(c) == c \in {" ", "\n", "\t", "\r"}

\* \w
IsWord(c) ==
    c \in {"a", "b", "c", "d", "e", "f", "g", "h", "i", "j", "k", "l", "m", "n",
      "o", "p", "q", "r", "s", "t", "u", "v", "w", "x", "y", "z", "A", "B",
      "C", "D", "E", "F", "G", "H", "I", "J", "K", "L", "M", "N", "O", "P",
      "Q", "R", "S", "T", "U", "V", "W", "X", "Y", "Z", "0", "1", "2", "3",
      "4", "5", "6", "7", "8", "9", "_"}

\* the literal lit stands at offset p of s
At(s, p, lit) ==
    /\ p >= 0
    /\ p + Len(lit) <= Len(s)
    /\ SubSeq(s, p + 1, p + Len(lit)) = lit

\* length of the longest run of \s characters at offset p
RECURSIVE SpaceRun(_, _)
SpaceRun(s, p) ==
    IF p < Len(s) /\ IsSpace(s[p + 1]) THEN 1 + SpaceRun(s, p + 1) ELSE 0

\* length of the longest run of \w characters at offset p
RECURSIVE WordRun(_, _)
WordRun(s, p) ==
    IF p < Len(s) /\ IsWord(s[p + 1]) THEN 1 + WordRun(s, p + 1) ELSE 0

\* \s*```\s*\[FIX_END\] matches at offset e
TailAt(s, e) ==
    \E u \in 0..SpaceRun(s, e) :
        /\ At(s, e + u, FENCE)
        /\ \E v \in 0..SpaceRun(s, e + u + 3) : At(s, e + u + 3 + v, FIX_END)

\* offsets at which the closing part \s*```\s*\[FIX_END\] matches
TailStarts(s) == {e \in 0..Len(s) : TailAt(s, e)}

\* Every way the pattern matches with \[FIX_START\] at offset i, as
\* <<u, k, w, m>>: u characters for the first \s*, k for .*?, w for (\w*),
\* then the newline, m characters for the body (.*?), then the closing part.
MatchesAt(s, i) ==
    IF ~At(s, i, FIX_START) THEN {}
    ELSE LET tails == TailStarts(s)
             a == i + Len(FIX_START)
         IN  UNION { UNION { UNION {
                 { <<u, k, w, e - (a + u + 3 + k + w + 1)>> :
                     e \in {t \in tails : t >= a + u + 3 + k + w + 1
                                          /\ At(s, a + u + 3 + k + w, <<"\n">>)} }
                 : w \in 0..WordRun(s, a + u + 3 + k) }
                 : k \in 0..(Len(s) - (a + u + 3)) }
                 : u \in {x \in 0..SpaceRun(s, a) : At(s, a + x, FENCE)} }

\* The order in which the backtracking matcher tries the ways of matching:
\* \s* greedy (longest first), .*? lazy (shortest first), \w* greedy,
\* the body .*? lazy.
TriedBefore(t1, t2) ==
    \/ t1[1] > t2[1]
    \/ t1[1] = t2[1] /\ t1[2] < t2[2]
    \/ t1[1] = t2[1] /\ t1[2] = t2[2] /\ t1[3] > t2[3]
    \/ t1[1] = t2[1] /\ t1[2] = t2[2] /\ t1[3] = t2[3] /\ t1[4] <= t2[4]

\* Python: s.strip()
RECURSIVE Strip(_)
Strip(s) ==
    IF s = <<>> THEN s
    ELSE IF IsSpace(Head(s)) THEN Strip(Tail(s))
    ELSE IF IsSpace(s[Len(s)]) THEN Strip(SubSeq(s, 1, Len(s) - 1))
    ELSE s

\* re.search: the first offset with a match, there the first way tried;
\* match.group(2).strip() if match else ""
extract_fixes(review_text) ==
    LET starts == {i \in 0..Len(review_text) : MatchesAt(review_text, i) # {}}
    IN  IF starts = {} THEN <<>>
        ELSE LET i == CHOOSE x \in starts : \A y \in starts : x <= y
                 ms == MatchesAt(review_text, i)
                 t == CHOOSE t1 \in ms : \A t2 \in ms : TriedBefore(t1, t2)
                 b == i + Len(FIX_START) + t[1] + 3 + t[2] + t[3] + 1
             IN  Strip(SubSeq(review_text, b + 1, b + t[4]))

\* pieces the drawn review texts are made of: a fix block, a fix block with
\* whitespace around its parts, a [FIX_START] with an opening fence and no
\* end, ordinary text, and a closing fence with [FIX_END]
MaxFixPieces == 3

FixBlockA == <<"[", "F", "I", "X", "_", "S", "T", "A", "R", "T", "]", Backtick, Backtick, Backtick, "c", "\n", "a", "\n", Backtick, Backtick, Backtick, "[", "F", "I", "X", "_", "E", "N", "D", "]">>
FixBlockB == <<"[", "F", "I", "X", "_", "S", "T", "A", "R", "T", "]", " ", Backtick, Backtick, Backtick, "\n", " ", "b", "\n", " ", Backtick, Backtick, Backtick, "\n", "[", "F", "I", "X", "_", "E", "N", "D", "]">>
StrayStart == <<"[", "F", "I", "X", "_", "S", "T", "A", "R", "T", "]", Backtick, Backtick, Backtick, "\n", "x", "\n">>

FixPieces == { FixBlockA, FixBlockB, StrayStart, <<"x", "\n">>, FENCE \o FIX_END }

FixReviews ==
    { Concat(ps) : ps \in UNION {[1..k -> FixPieces] : k \in 0..MaxFixPieces} }

\* line 249
ExtractFixes ==
    /\ appPc = "fixes"
    /\ fix_code' = extract_fixes(review)
    /\ appPc' = "fixed"
    /\ UNCHANGED <<review, clean_review, docVars, pubVars, sessVars>>

InitFix ==
    /\ PubIdle
    /\ SessIdle
    /\ appPc = "fixes"
    /\ review \in FixReviews
    /\ clean_review = <<>>
    /\ fix_code = <<>>
    /\ DocIdle

NextFix == ExtractFixes

SpecFix == InitFix /\ [][NextFix]_vars

\* A well-formed fix block starts at offset i: [FIX_START], optional
\* whitespace, the opening fence, an optional language tag (\w characters),
\* a newline, a body that holds neither marker, the closing fence, optional
\* whitespace, [FIX_END]. BlockBodyEnd is the offset where its body ends.
BlockBodyStart(s, i) ==
    LET a == i + Len(FIX_START) + SpaceRun(s, i + Len(FIX_START))
    IN  a + 3 + WordRun(s, a + 3) + 1

BlockBodyEnds(s, i) ==
    LET b == BlockBodyStart(s, i)
    IN  { e \in b..Len(s) :
            /\ TailAt(s, e)
            /\ ~Contains(FIX_START, SubSeq(s, b + 1, e))
            /\ ~Contains(FIX_END, SubSeq(s, b + 1, e)) }

WellFormedBlockAt(s, i) ==
    LET a == i + Len(FIX_START) + SpaceRun(s, i + Len(FIX_START))
    IN  /\ At(s, i, FIX_START)
        /\ At(s, a, FENCE)
        /\ At(s, a + 3 + WordRun(s, a + 3), <<"\n">>)
        /\ BlockBodyEnds(s, i) # {}

BlockStarts(s) == {i \in 0..Len(s) : WellFormedBlockAt(s, i)}

\* the trimmed body of the well-formed block that starts at offset i
BlockBody(s, i) ==
    LET e == CHOOSE x \in BlockBodyEnds(s, i) : TRUE
    IN  Strip(SubSeq(s, BlockBodyStart(s, i) + 1, e))

FirstBlockBody(s) ==
    LET bs == BlockStarts(s)
    IN  IF bs = {} THEN <<>>
        ELSE BlockBody(s, CHOOSE i \in bs : \A j \in bs : i <= j)

\* C8: extract_fixes returns the trimmed body of the first well-formed fix
\* block of the review text and nothing else, and the empty string when the
\* text holds no such block.
C8_FirstBlockBody ==
    appPc = "fixed" => fix_code = FirstBlockBody(review)

-----------------------------------------------------------------------------
\* extract_doc_suggestions (lines 149-177)

UpperLetters == <<"A", "B", "C", "D", "E", "F", "G", "H", "I", "J", "K", "L", "M",
                 "N", "O", "P", "Q", "R", "S", "T", "U", "V", "W", "X", "Y", "Z">>
LowerLetters == <<"a", "b", "c", "d", "e", "f", "g", "h", "i", "j", "k", "l", "m",
                 "n", "o", "p", "q", "r", "s", "t", "u", "v", "w", "x", "y", "z">>

\* (?i): the lower-case form of a character
Lower(c) ==
    IF \E k \in 1..Len(UpperLetters) : UpperLetters[k] = c
    THEN LowerLetters[CHOOSE k \in 1..Len(UpperLetters) : UpperLetters[k] = c]
    ELSE c

\* the literal lit stands at offset p of s, letter case ignored
AtIgnoreCase(s, p, lit) ==
    /\ p >= 0
    /\ p + Len(lit) <= Len(s)
    /\ \A k \in 1..Len(lit) : Lower(s[p + k]) = Lower(lit[k])

DOCUMENTATION == <<"D", "o", "c", "u", "m", "e", "n", "t", "a", "t", "i", "o", "n">>
SUGGESTIONS == <<"S", "u", "g", "g", "e", "s", "t", "i", "o", "n", "s">>

\* \d
IsDigit(c) == c \in {"0", "1", "2", "3", "4", "5", "6", "7", "8", "9"}

RECURSIVE DigitRun(_, _)
DigitRun(s, p) ==
    IF p < Len(s) /\ IsDigit(s[p + 1]) THEN 1 + DigitRun(s, p + 1) ELSE 0

\* the lookahead (?=(\n\d+\.\s|\Z)) holds at offset e
SectionEndAt(s, e) ==
    \/ e = Len(s)
    \/ /\ At(s, e, <<"\n">>)
       /\ \E d \in 1..DigitRun(s, e + 1) :
             /\ At(s, e + 1 + d, <<".">>)
             /\ e + 1 + d + 1 < Len(s)
             /\ IsSpace(s[e + 1 + d + 2])

\* offset after Documentation\s+Suggestions\s*: when that matches at i, else -1
HeaderEnd(s, i) ==
    LET a == i + Len(DOCUMENTATION)
        b == a + SpaceRun(s, a)
        c == b + Len(SUGGESTIONS)
        d == c + SpaceRun(s, c)
    IN  IF /\ AtIgnoreCase(s, i, DOCUMENTATION)
           /\ SpaceRun(s, a) >= 1
           /\ AtIgnoreCase(s, b, SUGGESTIONS)
           /\ At(s, d, <<":">>)
        THEN d + 1
        ELSE -1

\* Every way the pattern of line 154 matches at offset i, as <<x, n>>: x
\* characters for the \s* after the colon, n >= 1 characters for (.+?)
SectionMatchesAt(s, i) ==
    LET h == HeaderEnd(s, i)
    IN  IF h < 0 THEN {}
        ELSE UNION { { <<x, n>> : n \in {m \in 1..(Len(s) - (h + x)) :
                                            SectionEndAt(s, h + x + m)} }
                     : x \in 0..SpaceRun(s, h) }

\* \s* greedy (longest first), then .+? lazy (shortest first)
SectionTriedBefore(t1, t2) ==
    \/ t1[1] > t2[1]
    \/ t1[1] = t2[1] /\ t1[2] <= t2[2]

SectionStarts(s) == {i \in 0..Len(s) : SectionMatchesAt(s, i) # {}}

\* raw.group(1) of re.search(pattern, review_text, re.DOTALL); only called
\* when there is a match
SectionGroup(s) ==
    LET starts == SectionStarts(s)
        i == CHOOSE x \in starts : \A y \in starts : x <= y
        ms == SectionMatchesAt(s, i)
        t == CHOOSE t1 \in ms : \A t2 \in ms : SectionTriedBefore(t1, t2)
        g == HeaderEnd(s, i) + t[1]
    IN  SubSeq(s, g + 1, g + t[2])

\* Python: s.splitlines(), for texts whose only line break is "\n"
RECURSIVE SplitLines(_)
SplitLines(s) ==
    IF s = <<>> THEN <<>>
    ELSE IF Contains(<<"\n">>, s)
    THEN LET i == Find(<<"\n">>, s)
         IN  <<SubSeq(s, 1, i)>> \o SplitLines(SubSeq(s, i + 2, Len(s)))
    ELSE <<s>>

\* Python: "\n".join(ts)
RECURSIVE JoinLines(_)
JoinLines(ts) ==
    IF ts = <<>> THEN <<>>
    ELSE IF Len(ts) = 1 THEN ts[1]
    ELSE ts[1] \o <<"\n">> \o JoinLines(Tail(ts))

\* [-\w./]
IsPathChar(c) == IsWord(c) \/ c \in {"-", ".", "/"}

RECURSIVE PathRun(_, _)
PathRun(s, p) ==
    IF p < Len(s) /\ IsPathChar(s[p + 1]) THEN 1 + PathRun(s, p + 1) ELSE 0

\* [:\-]
IsSeparator(c) == c \in {":", "-"}

\* Every way r"^\s*([-\w./]+)\s*[:\-]\s*(.*)" (line 165) matches the line,
\* as <<x, t, y>>: x characters of leading \s*, t >= 1 characters of the
\* path token, y characters of \s* before the separator
FileMatches(line) ==
    UNION { UNION { { <<x, t, y>> : y \in {z \in 0..SpaceRun(line, x + t) :
                                              /\ x + t + z < Len(line)
                                              /\ IsSeparator(line[x + t + z + 1])} }
                    : t \in 1..PathRun(line, x) }
            : x \in 0..SpaceRun(line, 0) }

\* all three quantifiers are greedy: longest first
FileTriedBefore(t1, t2) ==
    \/ t1[1] > t2[1]
    \/ t1[1] = t2[1] /\ t1[2] > t2[2]
    \/ t1[1] = t2[1] /\ t1[2] = t2[2] /\ t1[3] >= t2[3]

\* the match re.match returns; only called when there is one
FileMatch(line) ==
    LET ms == FileMatches(line)
    IN  CHOOSE t1 \in ms : \A t2 \in ms : FileTriedBefore(t1, t2)

\* file_match.group(1)
FileGroup1(line) ==
    LET t == FileMatch(line)
    IN  SubSeq(line, t[1] + 1, t[1] + t[2])

\* file_match.group(2): after the separator \s* takes the whole run of
\* spaces and (.*) the rest of the line
FileGroup2(line) ==
    LET t == FileMatch(line)
        p == t[1] + t[2] + t[3] + 1
    IN  SubSeq(line, p + SpaceRun(line, p) + 1, Len(line))

\* the flush written as "if current_file and current_block": an entry with
\* no content is lost
FlushDropsEmpty(sugs, file, block) ==
    IF file # <<>> /\ block # <<>>
    THEN Append(sugs, [file |-> file, content |-> Strip(JoinLines(block))])
    ELSE sugs

\* lines 167-168 and 174-175: if current_file: suggestions.append(...)
Flush(sugs, file, block) ==
    IF file # <<>>
    THEN Append(sugs, [file |-> file, content |-> Strip(JoinLines(block))])
    ELSE sugs

\* lines 154-162
DocSearch ==
    /\ appPc = "docs"
    /\ IF SectionStarts(review) = {}
       THEN /\ appPc' = "docs_done"
            /\ lines' = <<>>
       ELSE /\ appPc' = "docs_loop"
            /\ lines' = SplitLines(Strip(SectionGroup(review)))
    /\ idx' = 0
    /\ current_file' = <<>>
    /\ current_block' = <<>>
    /\ suggestions' = <<>>
    /\ UNCHANGED <<review, clean_review, fix_code, pubVars, sessVars>>

\* lines 164-172: one turn of the for loop
DocLine ==
    /\ appPc = "docs_loop"
    /\ idx < Len(lines)
    /\ LET line == lines[idx + 1]
       IN  IF FileMatches(line) # {}
           THEN /\ suggestions' = Flush(suggestions, current_file, current_block)
                /\ current_file' = Strip(FileGroup1(line))
                /\ current_block' = IF FileGroup2(line) # <<>>
                                    THEN <<Strip(FileGroup2(line))>>
                                    ELSE <<>>
           ELSE IF current_file # <<>> /\ Strip(line) # <<>>
           THEN /\ current_block' = Append(current_block, Strip(line))
                /\ UNCHANGED <<suggestions, current_file>>
           ELSE UNCHANGED <<suggestions, current_file, current_block>>
    /\ idx' = idx + 1
    /\ UNCHANGED <<appPc, lines, review, clean_review, fix_code, pubVars, sessVars>>

\* lines 174-177
DocFlush ==
    /\ appPc = "docs_loop"
    /\ idx = Len(lines)
    /\ suggestions' = Flush(suggestions, current_file, current_block)
    /\ appPc' = "docs_done"
    /\ UNCHANGED <<lines, idx, current_file, current_block,
                   review, clean_review, fix_code, pubVars, sessVars>>

\* The drawn review texts: some text, then a section header (or none), then
\* up to MaxDocLines lines, each one of DocLinePieces.
MaxDocLines == 3

DocLinePieces ==
    { <<"R", ".", "m", "d", ":", " ", "a", "d", "d">>, <<" ", "a", "-", "b", " ", ":">>, <<" ", "x", " ", "y", " ">>, <<>>, <<"N", "o", "n", "e", " ", "n", "e", "e", "d", "e", "d", ".">>, <<"2", ".", " ", "z">>,
      <<"c", "-", "d", " ", "e">> }

DocHeaders ==
    { <<"D", "o", "c", "u", "m", "e", "n", "t", "a", "t", "i", "o", "n", " ", "S", "u", "g", "g", "e", "s", "t", "i", "o", "n", "s", ":", " ">>, 
      <<"d", "o", "c", "u", "m", "e", "n", "t", "a", "t", "i", "o", "n", "\n", "S", "U", "G", "G", "E", "S", "T", "I", "O", "N", "S", " ", ":">>, <<>> }

DocReviews ==
    { <<"x", "\n">> \o h \o JoinLines(ls) :
        h \in DocHeaders,
        ls \in UNION {[1..k -> DocLinePieces] : k \in 0..MaxDocLines} }

InitDoc ==
    /\ PubIdle
    /\ SessIdle
    /\ appPc = "docs"
    /\ review \in DocReviews
    /\ clean_review = <<>>
    /\ fix_code = <<>>
    /\ DocIdle

NextDoc ==
    \/ DocSearch
    \/ DocLine
    \/ DocFlush

SpecDoc == InitDoc /\ [][NextDoc]_vars

\* A file-marker line: leading whitespace, a path-like token, optional
\* whitespace, a colon or a dash, then the trailing text. MarkerSplits gives
\* every <<token, trimmed trailing text>> the line can be read as.
MarkerSplits(line) ==
    { <<SubSeq(line, x + 1, x + t), Strip(SubSeq(line, x + t + y + 2, Len(line)))>> :
        <<x, t, y>> \in
          { xty \in (0..Len(line)) \X (1..Len(line)) \X (0..Len(line)) :
              /\ xty[1] + xty[2] + xty[3] < Len(line)
              /\ \A j \in 1..xty[1] : IsSpace(line[j])
              /\ \A j \in (xty[1] + 1)..(xty[1] + xty[2]) : IsPathChar(line[j])
              /\ \A j \in (xty[1] + xty[2] + 1)..(xty[1] + xty[2] + xty[3]) :
                    IsSpace(line[j])
              /\ IsSeparator(line[xty[1] + xty[2] + xty[3] + 1]) } }

IsMarkerLine(line) == MarkerSplits(line) # {}

MarkerIndexes(ls) == {j \in 1..Len(ls) : IsMarkerLine(ls[j])}

\* index of the k-th file-marker line of ls
KthMarker(ls, k) ==
    CHOOSE j \in MarkerIndexes(ls) :
        Cardinality({i \in MarkerIndexes(ls) : i < j}) = k - 1

\* the lines lo..hi of ls, trimmed, the empty ones left out
RECURSIVE TrimmedNonEmpty(_, _, _)
TrimmedNonEmpty(ls, lo, hi) ==
    IF lo > hi THEN <<>>
    ELSE (IF Strip(ls[lo]) = <<>> THEN <<>> ELSE <<Strip(ls[lo])>>)
            \o TrimmedNonEmpty(ls, lo + 1, hi)

\* the content claimed for the k-th marker, read with trailing text trail
MarkerContent(ls, k, trail) ==
    LET n == Cardinality(MarkerIndexes(ls))
        from == KthMarker(ls, k) + 1
        to == IF k < n THEN KthMarker(ls, k + 1) - 1 ELSE Len(ls)
    IN  JoinLines((IF trail = <<>> THEN <<>> ELSE <<trail>>)
                      \o TrimmedNonEmpty(ls, from, to))

NoHeader(s) == \A i \in 0..Len(s) : ~AtIgnoreCase(s, i, DOCUMENTATION)

NoneNeeded == <<"N", "o", "n", "e", " ", "n", "e", "e", "d", "e", "d", ".">>

\* C9: extract_doc_suggestions returns one entry per file-marker line of the
\* captured section, in document order; each entry's file is the marker's
\* path-like token and its content the marker's trailing text followed by
\* the trimmed non-empty lines up to the next marker; a section that holds
\* only "None needed.", and a text with no section, yield no entry.
C9_OneEntryPerMarker ==
    appPc = "docs_done" =>
        /\ Len(suggestions) = Cardinality(MarkerIndexes(lines))
        /\ \A k \in 1..Len(suggestions) :
              \E ft \in MarkerSplits(lines[KthMarker(lines, k)]) :
                  /\ suggestions[k].file = ft[1]
                  /\ suggestions[k].content = MarkerContent(lines, k, ft[2])
        /\ lines = <<NoneNeeded>> => suggestions = <<>>
        /\ NoHeader(review) => suggestions = <<>>

\* two entries, the first with its trailing text and a further line, the
\* second with no content
C9_Witness ==
    /\ appPc = "docs_done"
    /\ Len(suggestions) = 2
    /\ Contains(<<"\n">>, suggestions[1].content)
    /\ suggestions[2].content = <<>>

-----------------------------------------------------------------------------
\* main(): custom guidelines (lines 187-206) and their use by
\* run_code_review (lines 65-66), across the script runs of one session.
\* Streamlit runs the script from the top on every interaction; the widget
\* value and st.session_state persist between runs.

\* An uploaded file: its extension and what json.loads / yaml.safe_load make
\* of its content: a string (text), a list of rules (rules), any other
\* shape ("other"), or an exception ("error").
Files ==
    { [ext |-> e, kind |-> "str", text |-> t, rules |-> <<>>] :
          e \in {"json", "yaml"}, t \in { <<" ", "s", " ">>, <<" ">> } }
    \cup
    { [ext |-> e, kind |-> "list", text |-> <<>>, rules |-> rs] :
          e \in {"json", "yaml"},
          rs \in { <<>>, << <<"p">> >>, << <<"q">>, <<>>, <<"p">> >> } }
    \cup
    { [ext |-> e, kind |-> k, text |-> <<>>, rules |-> <<>>] :
          e \in {"json", "yaml"}, k \in {"other", "error"} }

\* line 53: the rules that are not empty, each as "- <rule>", trimmed
RECURSIVE RuleLines(_)
RuleLines(rs) ==
    IF rs = <<>> THEN <<>>
    ELSE (IF Head(rs) # <<>> THEN <<Strip(<<"-", " ">> \o Head(rs))>> ELSE <<>>)
            \o RuleLines(Tail(rs))

\* load_guidelines (lines 25-60) for an uploaded file
load_guidelines(f) ==
    IF f.kind = "error" THEN <<>>
    ELSE IF f.ext \notin {"json", "yaml", "yml"} THEN <<>>
    ELSE IF f.kind = "str" THEN Strip(f.text)
    ELSE IF f.kind = "list" THEN JoinLines(RuleLines(f.rules))
    ELSE <<>>

\* lines 202-206, run by every script run: a loaded text that is empty
\* leaves st.session_state as it is
KeepOnEmpty(f, cur) ==
    IF f = NoFile THEN cur
    ELSE IF load_guidelines(f) # <<>> THEN load_guidelines(f) ELSE cur

GuidelinesHeading == <<"\n", "\n", "*", "*",
      "C", "U", "S", "T", "O", "M", " ", "C", "O", "D", "I", "N", "G", " ", "G",
      "U", "I", "D", "E", "L", "I", "N", "E", "S", "*", "*", ":", "\n">>

\* lines 65-66
GuidelinesBlock(cur) ==
    LET custom == IF cur = Unset THEN <<>> ELSE cur
    IN  IF custom # <<>> THEN GuidelinesHeading \o custom \o <<"\n">> ELSE <<>>

\* bound on the number of reviews of a session
MaxReviews == 2

\* the user puts a file in the uploader: the script runs
Upload(f) ==
    /\ uploaded' = f
    /\ last_upload' = f
    /\ custom_guidelines' = KeepOnEmpty(f, custom_guidelines)
    /\ UNCHANGED <<guidelines_block, reviews, pubVars, appVars>>

\* the user removes the file from the uploader: the script runs
RemoveFile ==
    /\ uploaded # NoFile
    /\ uploaded' = NoFile
    /\ custom_guidelines' = KeepOnEmpty(NoFile, custom_guidelines)
    /\ UNCHANGED <<guidelines_block, last_upload, reviews, pubVars, appVars>>

\* lines 195-200: the Reset button deletes the key and calls st.rerun();
\* the rerun runs lines 202-206 with the widget value still in place
Reset ==
    /\ custom_guidelines' = KeepOnEmpty(uploaded, Unset)
    /\ UNCHANGED <<uploaded, guidelines_block, last_upload, reviews,
                   pubVars, appVars>>

\* the Review Code button: the script runs lines 202-206, then
\* run_code_review (line 220) builds the system prompt
Review ==
    /\ reviews < MaxReviews
    /\ custom_guidelines' = KeepOnEmpty(uploaded, custom_guidelines)
    /\ guidelines_block' = GuidelinesBlock(custom_guidelines')
    /\ reviews' = reviews + 1
    /\ UNCHANGED <<uploaded, last_upload, pubVars, appVars>>

InitSession ==
    /\ PubIdle
    /\ AppIdle
    /\ SessIdle

NextSession ==
    \/ \E f \in Files : Upload(f)
    \/ RemoveFile
    \/ Reset
    \/ Review

SpecSession == InitSession /\ [][NextSession]_vars

\* C7: the session guideline is either absent or the result of the most
\* recent upload, and when the most recent upload made load_guidelines
\* return empty, a review run after it has no custom guideline section.
C7_GuidelinesFollowLastUpload ==
    /\ last_upload # NoFile =>
          custom_guidelines \in {Unset, load_guidelines(last_upload)}
    /\ (last_upload # NoFile /\ load_guidelines(last_upload) = <<>>) =>
          GuidelinesBlock(custom_guidelines) = <<>>

====
